---- MODULE Spec2Model ----
(***************************************************************************)
(* Model of the two QGIS scripts of bncszb/qgis-flood:                     *)
(*   level.py      water-level polygon generator                           *)
(*   add_point.py  point-layer creator                                     *)
(* Each script is one invocation: a modal form, input gathering, a linear  *)
(* sequence of calls into the host (project registry, file system,         *)
(* processing toolbox) and a top-level try/except that reports failures.   *)
(***************************************************************************)
EXTENDS Integers, Sequences, FiniteSets, TLC

VARIABLES
    project_home, \* QgsProject.instance().homePath(), as a path
    script,     \* which script runs: "level", "add_point" or "extract"
    pc,         \* position of the script
    form,       \* what the user left in the form when it closed
    dem,        \* DEM raster: cell -> elevation
    project,    \* QgsProject.instance(): the set of registered layer names
    fs,         \* files and directories the invocation wrote and still exist
    dialogs,    \* QMessageBox dialogs shown, in order
    toolCalls,  \* processing.run operations invoked, in order
    vals,       \* what get_values returned
    err,        \* the exception in flight
    mask,       \* the threshold raster written by native:rastercalc
    polys,      \* the features of the temporary polygon layer
    selected,   \* the selection of the temporary polygon layer
    output,     \* the features saved to the filtered polygon file
    returned,   \* the value the processing function returned
    created,    \* the layer create_point_layer built
    elev        \* result of one call of get_base_elevation_from_point

vars == <<project_home, script, pc, form, dem, project, fs, dialogs, toolCalls, vals, err,
          mask, polys, selected, output, returned, created, elev>>

----------------------------------------------------------------------------
(* Bounds of the model *)

Width == 2          \* DEM cells (one row of Width columns)
MaxElev == 1        \* DEM cell values, Z values and coordinates are 0..MaxElev
MaxLevel == 1       \* flood levels tried: 0..MaxLevel (the form allows 0.0..50.0)
MaxFeatures == 2    \* features of the point dataset
MaxAttr == 2        \* numeric attribute values are 1..MaxAttr

----------------------------------------------------------------------------
(* Values *)

\* A float as Python sees it: NaN or a number.
Num(n) == [nan |-> FALSE, v |-> n]
NaN == [nan |-> TRUE, v |-> 0]

\* vertex.z() != vertex.z(): true of NaN alone.
FloatNe(a, b) == a.nan \/ b.nan \/ a.v # b.v

\* An attribute value of a feature: the field is absent, the value is None,
\* the NULL of a QGIS layer (a QVariant, which is not None), a number, a
\* string, or an object float() does not accept (a date, a list).
Absent == [kind |-> "absent", v |-> 0, s |-> ""]
None == [kind |-> "none", v |-> 0, s |-> ""]
Null == [kind |-> "null", v |-> 0, s |-> ""]
NumVal(n) == [kind |-> "num", v |-> n, s |-> ""]
StrVal(t) == [kind |-> "str", v |-> 0, s |-> t]
ObjVal == [kind |-> "obj", v |-> 0, s |-> ""]

AttrStrings == {"1", "abc"}

AttrValues ==
    {Absent, None, Null, ObjVal} \cup {NumVal(n) : n \in 1..MaxAttr}
        \cup {StrVal(t) : t \in AttrStrings}

\* The result of a call: a value, or an exception of a type with a message.
Ok(x) == [ok |-> TRUE, value |-> x, exc |-> "", msg |-> ""]
Raise(type, text) == [ok |-> FALSE, value |-> 0, exc |-> type, msg |-> text]

\* Python's float() on an attribute value that is not None.
PyFloat(a) ==
    CASE a.kind = "num" -> Ok(a.v)
      [] a.kind = "str" /\ a.s = "1" -> Ok(1)
      [] a.kind = "str" -> Raise("ValueError", "could not convert string to float")
      [] OTHER -> Raise("TypeError", "float() argument must be a string or a number")

----------------------------------------------------------------------------
(* The point dataset *)

FieldNames == {"z", "Z", "elevation", "elev", "height"}

\* The probing order of get_base_elevation_from_point.
field_names == <<"z", "Z", "elevation", "elev", "height">>

\* The geometry types of the layers the point combo box offers.
PointTypes == {"Point", "PointM", "Point25D", "PointZ", "PointZM"}
MultiPointTypes ==
    {"MultiPoint", "MultiPointM", "MultiPoint25D", "MultiPointZ", "MultiPointZM"}
WkbTypes == PointTypes \cup MultiPointTypes

\* The types the code reads a Z from, and the types that carry one.
ZWkbTypes == {"Point25D", "PointZ", "PointZM"}
HasZTypes == ZWkbTypes \cup {"MultiPoint25D", "MultiPointZ", "MultiPointZM"}

Cells == 1..Width
Outside == Width + 1

NoAttrs == [n \in FieldNames |-> Absent]

\* A feature: its geometry (type, emptiness, Z of vertex 0, the DEM cell its
\* point lies in, Outside when it lies off the raster) and its attributes.
Feature(w, e, z, c, a) == [wkb |-> w, empty |-> e, z |-> z, loc |-> c, attrs |-> a]

\* The layer chosen in the point combo box: none, or a dataset.
NoLayer == [chosen |-> FALSE, features |-> <<>>]
Layer(fs_) == [chosen |-> TRUE, features |-> fs_]

\* Lines 303-311: the attribute fallback, from field_names[i] on.
RECURSIVE ProbeAttributes(_, _)
ProbeAttributes(first_feature, i) ==
    IF i > Len(field_names)
    THEN Raise("ValueError", "Point layer has no Z coordinate in geometry or attributes")
    ELSE LET z_value == first_feature.attrs[field_names[i]]
         IN IF z_value.kind # "absent" /\ z_value # None
            THEN PyFloat(z_value)
            ELSE ProbeAttributes(first_feature, i + 1)

\* Lines 282-311: the elevation of the first feature.
first_feature_elevation(first_feature) ==
    IF first_feature.empty
    THEN Raise("ValueError", "Point geometry is empty")
    ELSE IF first_feature.wkb \notin PointTypes
    THEN Raise("TypeError", "geometry cannot be converted to a point")
    ELSE IF first_feature.wkb \in ZWkbTypes
         THEN IF FloatNe(first_feature.z, first_feature.z)
              THEN Raise("ValueError", "Point Z coordinate is not valid (NaN)")
              ELSE Ok(first_feature.z.v)
         ELSE ProbeAttributes(first_feature, 1)

\* WaterLevelDialog.get_base_elevation_from_point
get_base_elevation_from_point(point_layer) ==
    IF ~point_layer.chosen \/ Len(point_layer.features) = 0
    THEN Raise("ValueError", "Point layer is empty or invalid")
    ELSE first_feature_elevation(point_layer.features[1])

----------------------------------------------------------------------------
(* Text fields *)

\* What a line edit can hold: short texts over a blank and a letter.
Texts == {<<>>, <<" ">>, <<"a">>, <<" ", "a">>, <<"a", " ">>}

\* str.strip(): leading and trailing blanks removed.
RECURSIVE LStrip(_)
LStrip(t) == IF t # <<>> /\ Head(t) = " " THEN LStrip(Tail(t)) ELSE t

RECURSIVE RStrip(_)
RStrip(t) ==
    IF t # <<>> /\ t[Len(t)] = " " THEN RStrip(SubSeq(t, 1, Len(t) - 1)) ELSE t

Strip(t) == RStrip(LStrip(t))

----------------------------------------------------------------------------
(* The forms *)

\* The point datasets the water-level form can offer: a first feature from
\* FirstFeatures, then plain 3D points at any location.
AttrSamples ==
    {NoAttrs,
     [NoAttrs EXCEPT !["z"] = NumVal(1)],
     [NoAttrs EXCEPT !["z"] = None, !["elevation"] = NumVal(1)],
     [NoAttrs EXCEPT !["z"] = StrVal("abc"), !["height"] = NumVal(1)],
     [NoAttrs EXCEPT !["elev"] = ObjVal],
     [NoAttrs EXCEPT !["Z"] = Null]}

Locations == Cells \cup {Outside}

FirstFeatures ==
    {Feature("PointZ", FALSE, Num(z), c, NoAttrs) : z \in 0..MaxElev, c \in Locations}
        \cup {Feature("PointZ", FALSE, NaN, c, NoAttrs) : c \in {1}}
        \cup {Feature("PointZ", TRUE, NaN, c, NoAttrs) : c \in {1}}
        \cup {Feature("Point", FALSE, NaN, c, a) : c \in {1}, a \in AttrSamples}
        \cup {Feature("MultiPointZ", FALSE, Num(0), c, NoAttrs) : c \in {1}}
        \cup {Feature("MultiPoint", FALSE, NaN, c, [NoAttrs EXCEPT !["z"] = NumVal(1)]) : c \in {1}}

OtherFeatures == {Feature("PointZ", FALSE, Num(0), c, NoAttrs) : c \in Locations}

RECURSIVE Extend(_, _)
Extend(S, n) ==
    IF n = 0 THEN S
    ELSE Extend(S \cup {Append(q, f) : q \in {r \in S : r # <<>>}, f \in OtherFeatures},
                n - 1)

PointDatasets == Extend({<<>>} \cup {<<f>> : f \in FirstFeatures}, MaxFeatures - 1)

Coords == 0..MaxElev

\* The water-level form as the user left it.  A combo box holds the first
\* layer of its kind whenever the project has one, and nothing otherwise.
\* The custom extent is read only when the canvas extent is not chosen; the
\* field is taken empty otherwise.
ExtentTexts == {<<>>, <<" ">>, <<" ", "a">>}

LevelForms ==
  {f \in
    [accepted : BOOLEAN,
     dem_layer : {"dem" \in project},
     point_layer : IF "points" \in project
                   THEN {Layer(q) : q \in PointDatasets} ELSE {NoLayer},
     level : 0..MaxLevel,
     canvas : BOOLEAN,
     extent_input : ExtentTexts] : f.canvas => f.extent_input = <<>>}

\* The point-layer form as the user left it.
PointForms ==
    [accepted : BOOLEAN,
     name_input : Texts,
     x : Coords, y : Coords, z : Coords,
     output_file_path : BOOLEAN]

NoForm == [accepted |-> FALSE]

----------------------------------------------------------------------------
(* Exceptions *)

NoErr == [type |-> "", origin |-> ""]
Exc(type, origin) == [type |-> type, origin |-> origin]

\* The values a cancelled form yields: None, None, None, None, None.
NoVals == [is_none |-> TRUE]

\* The values get_values returns for form f and base elevation b.
Values(f, b) ==
    [is_none |-> FALSE,
     point_layer |-> f.point_layer,
     base_elevation |-> b,
     level |-> f.level,
     extent |-> IF f.canvas THEN <<"canvas">> ELSE Strip(f.extent_input)]

\* As get_values, were a failed elevation extraction replaced by 0.
ElevationDefaulted(f) ==
    IF ~f.dem_layer THEN Raise("ValueError", "No DEM layer selected")
    ELSE IF ~f.point_layer.chosen THEN Raise("ValueError", "No point layer selected")
    ELSE LET base_elevation == get_base_elevation_from_point(f.point_layer)
         IN IF ~f.canvas /\ Strip(f.extent_input) = <<>>
            THEN Raise("ValueError", "Custom extent cannot be empty")
            ELSE Ok(Values(f, IF base_elevation.ok THEN base_elevation.value ELSE 0))

\* WaterLevelDialog.get_values
get_values(f) ==
    IF ~f.dem_layer THEN Raise("ValueError", "No DEM layer selected")
    ELSE IF ~f.point_layer.chosen THEN Raise("ValueError", "No point layer selected")
    ELSE LET base_elevation == get_base_elevation_from_point(f.point_layer)
         IN IF ~base_elevation.ok THEN base_elevation
            ELSE IF ~f.canvas /\ Strip(f.extent_input) = <<>>
            THEN Raise("ValueError", "Custom extent cannot be empty")
            ELSE Ok(Values(f, base_elevation.value))

\* As ap_get_values, were the text of the name field not stripped.
NameUnstripped(f) ==
    LET layer_name == f.name_input
    IN IF layer_name = <<>> THEN Raise("ValueError", "Layer name cannot be empty")
       ELSE Ok([is_none |-> FALSE, layer_name |-> layer_name,
                x |-> f.x, y |-> f.y, z |-> f.z,
                output_file_path |-> f.output_file_path])

\* CreatePointLayerDialog.get_values
ap_get_values(f) ==
    LET layer_name == Strip(f.name_input)
    IN IF layer_name = <<>> THEN Raise("ValueError", "Layer name cannot be empty")
       ELSE Ok([is_none |-> FALSE, layer_name |-> layer_name,
                x |-> f.x, y |-> f.y, z |-> f.z,
                output_file_path |-> f.output_file_path])

----------------------------------------------------------------------------
(* The processing toolbox, by its contracts *)

\* As RasterCalc, were the comparison of the expression <= instead of <.
RasterCalcInclusive(d, base_elevation, level) ==
    [c \in Cells |-> IF d[c] <= base_elevation + level THEN 1 ELSE 0]

\* native:rastercalc with EXPRESSION "<dem>@1" < (base_elevation + level):
\* 1 where the DEM cell is below the sum, 0 elsewhere.
RasterCalc(d, base_elevation, level) ==
    [c \in Cells |-> IF d[c] < base_elevation + level THEN 1 ELSE 0]

Adjacent(a, b) == a - b \in {-1, 0, 1}

\* The maximal connected set of cells around S holding one value.
RECURSIVE Grow(_, _)
Grow(S, m) ==
    LET T == S \cup {c \in Cells : \E b \in S : Adjacent(b, c) /\ m[c] = m[b]}
    IN IF T = S THEN S ELSE Grow(T, m)

\* gdal:polygonize with FIELD "DN": one polygon per connected region of
\* equal cell value, tagged with that value.
Polygonize(m) == {[cells |-> Grow({c}, m), DN |-> m[c]] : c \in Cells}

\* The predicate "intersects" between a polygon and a point feature.
Intersects(p, f) == ~f.empty /\ f.loc \in p.cells

\* native:selectbylocation with PREDICATE [0], INTERSECT point_layer, METHOD 0:
\* the polygons that intersect some feature of the point layer.
SelectByLocation(P, point_layer) ==
    {p \in P : \E i \in 1..Len(point_layer.features) :
                   Intersects(p, point_layer.features[i])}

----------------------------------------------------------------------------
(* File names *)

\* A path is the sequence of its pieces, ".shp" being a piece of its own
\* wherever the text holds it.
Homes == {<<"/home">>, <<"/flood", ".shp", ".d">>}

\* str.replace(old, new): every occurrence of old in the path is replaced.
Replace(path, old, new) ==
    [i \in 1..Len(path) |-> IF path[i] = old THEN new ELSE path[i]]

\* The path with its extension, the last piece, changed.
WithExtension(path, ext) == [path EXCEPT ![Len(path)] = ext]

\* project_home / "output"
output_dir == project_home \o <<"/output">>

level_folder == output_dir \o <<"/water_level_m">>
raster_output == level_folder \o <<"/level", ".tif">>
temp_polygon_output == level_folder \o <<"/level_polygon_temp", ".shp">>
filtered_polygon_output == level_folder \o <<"/level_polygon", ".shp">>

\* The names cleanup removes: the temporary shapefile, then
\* temp_polygon_output.replace(".shp", ext) for each extension.
extensions == <<".shp", ".shx", ".dbf", ".prj", ".cpg">>
temp_files == [k \in 1..Len(extensions) |-> Replace(temp_polygon_output, ".shp", extensions[k])]

\* The files gdal:polygonize writes for a shapefile.
polygonize_files ==
    {WithExtension(temp_polygon_output, e) : e \in {".shp", ".shx", ".dbf", ".prj"}}

point_file == <<"/point", ".shp">>

\* The layers an invocation can add to the project.
\* A layer that is not valid, as the project holds it when it takes it.
NotValid(name) == IF name = "temp_polygons" THEN "temp_polygons (not valid)"
                  ELSE "water_level (not valid)"

AddedLayers == {"temp_polygons", "water_level", "point_layer",
                NotValid("temp_polygons"), NotValid("water_level")}

----------------------------------------------------------------------------
(* Initial state: a project holding some of a DEM and a point layer, and a
   script about to open its form. *)

NoCreated == [provider |-> ""]
FlatRaster == [c \in Cells |-> 0]

Blank ==
    /\ form = NoForm
    /\ dem = FlatRaster
    /\ fs = {}
    /\ dialogs = <<>>
    /\ toolCalls = <<>>
    /\ vals = NoVals
    /\ err = NoErr
    /\ mask = FlatRaster
    /\ polys = {}
    /\ selected = {}
    /\ output = {}
    /\ returned = <<>>
    /\ created = NoCreated
    /\ elev = Ok(0)

Init ==
    /\ script \in {"level", "add_point"}
    /\ project_home \in IF script = "level" THEN Homes ELSE {<<"/home">>}
    /\ pc = "start"
    /\ project \in SUBSET {"dem", "points"}
    /\ Blank

data == <<dem, mask, polys, selected, output>>

\* An exception leaves the try block for the handlers.
Throw(type, origin) ==
    /\ err' = Exc(type, origin)
    /\ pc' = "except"

----------------------------------------------------------------------------
(* level.py *)

\* get_user_inputs: the form is shown; accepted, its values are gathered.
get_user_inputs ==
    /\ script = "level" /\ pc = "start"
    /\ \E f \in LevelForms :
        /\ form' = f
        /\ IF f.accepted
           THEN LET r == get_values(f)
                IN IF r.ok
                   THEN vals' = r.value /\ pc' = "inputs" /\ err' = err
                   ELSE vals' = vals /\ Throw(r.exc, "validation")
           ELSE vals' = NoVals /\ pc' = "inputs" /\ err' = err
    /\ UNCHANGED <<project_home, script, project, fs, dialogs, toolCalls, data, returned, created, elev>>

\* As check_cancelled, were the test for None left out: dem_layer.name()
\* then fails on None.
CancelIgnored ==
    /\ script = "level" /\ pc = "inputs"
    /\ IF vals.is_none THEN Throw("AttributeError", "processing")
       ELSE pc' = "makedirs" /\ err' = err
    /\ UNCHANGED <<project_home, script, form, project, fs, dialogs, toolCalls, vals, data,
                   returned, created, elev>>

\* if dem_layer is None: print(...); exit()
check_cancelled ==
    /\ script = "level" /\ pc = "inputs"
    /\ pc' = IF vals.is_none THEN "exit" ELSE "makedirs"
    /\ UNCHANGED <<project_home, script, form, project, fs, dialogs, toolCalls, vals, err, data,
                   returned, created, elev>>

\* The directories os.makedirs(level_folder, exist_ok=True) walks, outermost
\* first, and those of them from position a to position b.
dir_chain == <<project_home, output_dir, level_folder>>
Dirs(a, b) == {dir_chain[i] : i \in a..b}

\* What os.makedirs(level_folder, exist_ok=True) can create when the
\* directories before position from exist: it creates the missing ones only,
\* from the outermost missing one (position k) inwards; all of them when it
\* returns, those before the one it fails on (position j) when it raises.
MadeDirs(ok, from) ==
    IF ok THEN {Dirs(k, 3) : k \in from..4}
    ELSE UNION {{Dirs(k, j - 1) : j \in k..3} : k \in from..3}

\* os.makedirs(level_folder, exist_ok=True)
makedirs ==
    /\ script = "level" /\ pc = "makedirs"
    /\ \E ok \in BOOLEAN : \E made \in MadeDirs(ok, 1) :
        /\ fs' = fs \cup made
        /\ IF ok THEN pc' = "rastercalc" /\ err' = err
           ELSE Throw("OSError", "processing")
    /\ UNCHANGED <<project_home, script, form, project, dialogs, toolCalls, vals, data, returned,
                   created, elev>>

\* Step 1: processing.run("native:rastercalc", ...) on the DEM as it is read.
rastercalc ==
    /\ script = "level" /\ pc = "rastercalc"
    /\ toolCalls' = Append(toolCalls, "native:rastercalc")
    /\ \E ok \in BOOLEAN :
        IF ok
        THEN \E d \in [Cells -> 0..MaxElev] :
                /\ dem' = d
                /\ mask' = RasterCalc(d, vals.base_elevation, vals.level)
                /\ fs' = fs \cup {raster_output}
                /\ pc' = "polygonize" /\ err' = err
        ELSE /\ UNCHANGED <<dem, mask, fs>>
             /\ Throw("QgsProcessingException", "processing")
    /\ UNCHANGED <<project_home, script, form, project, dialogs, vals, polys, selected, output,
                   returned, created, elev>>

\* Step 2: processing.run("gdal:polygonize", ...)
polygonize ==
    /\ script = "level" /\ pc = "polygonize"
    /\ toolCalls' = Append(toolCalls, "gdal:polygonize")
    /\ \E ok \in BOOLEAN :
        IF ok
        THEN /\ polys' = Polygonize(mask)
             /\ fs' = fs \cup polygonize_files
             /\ pc' = "addtemp" /\ err' = err
        ELSE /\ UNCHANGED <<polys, fs>>
             /\ Throw("QgsProcessingException", "processing")
    /\ UNCHANGED <<project_home, script, form, project, dialogs, vals, dem, mask, selected, output,
                   returned, created, elev>>

\* What addMapLayer leaves registered: the layer when it is valid; a layer
\* that is not valid is refused or registered as it is, depending on the
\* QGIS version.
Registered(name, valid) ==
    IF valid THEN {project \cup {name}}
    ELSE {project, project \cup {NotValid(name)}}

\* QgsProject.instance().addMapLayer(temp_polygon_layer, False)
add_temp_layer ==
    /\ script = "level" /\ pc = "addtemp"
    /\ \E valid \in BOOLEAN : project' \in Registered("temp_polygons", valid)
    /\ pc' = "select"
    /\ UNCHANGED <<project_home, script, form, fs, dialogs, toolCalls, vals, err, data, returned,
                   created, elev>>

\* processing.run("native:selectbylocation", ...)
selectbylocation ==
    /\ script = "level" /\ pc = "select"
    /\ toolCalls' = Append(toolCalls, "native:selectbylocation")
    /\ \E ok \in {b \in BOOLEAN : b => "temp_polygons" \in project} :
        IF ok
        THEN /\ selected' = SelectByLocation(polys, vals.point_layer)
             /\ pc' = "save" /\ err' = err
        ELSE /\ selected' = selected
             /\ Throw("QgsProcessingException", "processing")
    /\ UNCHANGED <<project_home, script, form, project, fs, dialogs, vals, dem, mask, polys, output,
                   returned, created, elev>>

\* processing.run("native:saveselectedfeatures", ...)
saveselectedfeatures ==
    /\ script = "level" /\ pc = "save"
    /\ toolCalls' = Append(toolCalls, "native:saveselectedfeatures")
    /\ \E ok \in BOOLEAN :
        IF ok
        THEN /\ output' = selected
             /\ fs' = fs \cup {filtered_polygon_output}
             /\ pc' = "removetemp" /\ err' = err
        ELSE /\ UNCHANGED <<output, fs>>
             /\ Throw("QgsProcessingException", "processing")
    /\ UNCHANGED <<project_home, script, form, project, dialogs, vals, dem, mask, polys, selected,
                   returned, created, elev>>

\* QgsProject.instance().removeMapLayer(temp_polygon_layer.id())
remove_temp_layer ==
    /\ script = "level" /\ pc = "removetemp"
    /\ project' = project \ {"temp_polygons", NotValid("temp_polygons")}
    /\ pc' = "load"
    /\ UNCHANGED <<project_home, script, form, fs, dialogs, toolCalls, vals, err, data, returned,
                   created, elev>>

\* Step 4: addMapLayer(QgsVectorLayer(filtered_polygon_output, ...)) and the
\* styling of what it returned; a layer that is not valid has no renderer, or
\* is None.
load_and_style ==
    /\ script = "level" /\ pc = "load"
    /\ \E valid \in BOOLEAN :
        /\ project' \in Registered("water_level", valid)
        /\ IF valid THEN pc' = "cleanup" /\ err' = err
           ELSE Throw("AttributeError", "processing")
    /\ UNCHANGED <<project_home, script, form, fs, dialogs, toolCalls, vals, data, returned,
                   created, elev>>

\* The files of temp_files before position k.
Before(k) == {temp_files[j] : j \in 1..(k - 1)}

\* Clean up temporary file: os.remove of the temporary shapefile and of each
\* of its sidecar files that exists; then the path is returned.
cleanup ==
    /\ script = "level" /\ pc = "cleanup"
    /\ \/ /\ fs' = IF temp_polygon_output \in fs
                   THEN fs \ {temp_files[j] : j \in 1..Len(temp_files)} ELSE fs
          /\ returned' = filtered_polygon_output
          /\ pc' = "done" /\ err' = err
       \/ /\ temp_polygon_output \in fs
          /\ \E k \in 1..Len(temp_files) :
                /\ temp_files[k] \in fs
                /\ fs' = fs \ Before(k)
          /\ returned' = returned
          /\ Throw("OSError", "processing")
    /\ UNCHANGED <<project_home, script, form, project, dialogs, toolCalls, vals, data, created, elev>>

\* except ValueError: QMessageBox.warning; except Exception: QMessageBox.critical
report ==
    /\ script = "level" /\ pc = "except"
    /\ dialogs' = Append(dialogs, IF err.type = "ValueError" THEN "warning" ELSE "critical")
    /\ pc' = "done"
    /\ UNCHANGED <<project_home, script, form, project, fs, toolCalls, vals, err, data, returned,
                   created, elev>>

----------------------------------------------------------------------------
(* add_point.py *)

\* get_user_inputs of add_point.py
ap_get_user_inputs ==
    /\ script = "add_point" /\ pc = "start"
    /\ \E f \in PointForms :
        /\ form' = f
        /\ IF f.accepted
           THEN LET r == ap_get_values(f)
                IN IF r.ok
                   THEN vals' = r.value /\ pc' = "inputs" /\ err' = err
                   ELSE vals' = vals /\ Throw(r.exc, "validation")
           ELSE vals' = NoVals /\ pc' = "inputs" /\ err' = err
    /\ UNCHANGED <<project_home, script, project, fs, dialogs, toolCalls, data, returned, created, elev>>

\* if layer_name is None: print("Operation cancelled by user")
ap_check_cancelled ==
    /\ script = "add_point" /\ pc = "inputs"
    /\ pc' = IF vals.is_none THEN "done" ELSE "create"
    /\ UNCHANGED <<project_home, script, form, project, fs, dialogs, toolCalls, vals, err, data,
                   returned, created, elev>>

\* The layer create_point_layer builds from its arguments.
PointLayer(v) ==
    [provider |-> IF v.output_file_path THEN "ogr" ELSE "memory",
     name |-> v.layer_name,
     features |-> <<[id |-> 1, x |-> v.x, y |-> v.y, z |-> v.z, name |-> v.layer_name]>>]

\* create_point_layer: a shapefile when a path was chosen, a memory layer
\* otherwise; the layer is added to the project when it is valid.
create_point_layer ==
    /\ script = "add_point" /\ pc = "create"
    /\ \E writer_ok \in BOOLEAN, valid \in BOOLEAN :
        IF vals.output_file_path /\ ~writer_ok
        THEN /\ UNCHANGED <<fs, project, created>>
             /\ Throw("Exception", "processing")
        ELSE /\ fs' = IF vals.output_file_path THEN fs \cup {point_file} ELSE fs
             /\ IF valid
                THEN /\ created' = PointLayer(vals)
                     /\ project' = project \cup {"point_layer"}
                     /\ pc' = "success" /\ err' = err
                ELSE /\ UNCHANGED <<project, created>>
                     /\ Throw("Exception", "processing")
    /\ UNCHANGED <<project_home, script, form, dialogs, toolCalls, vals, data, returned, elev>>

\* The canvas is zoomed to the layer and QMessageBox.information is shown.
ap_success ==
    /\ script = "add_point" /\ pc = "success"
    /\ dialogs' = Append(dialogs, "information")
    /\ pc' = "done"
    /\ UNCHANGED <<project_home, script, form, project, fs, toolCalls, vals, err, data, returned,
                   created, elev>>

\* except ValueError: QMessageBox.warning; except Exception: QMessageBox.critical
ap_report ==
    /\ script = "add_point" /\ pc = "except"
    /\ dialogs' = Append(dialogs, IF err.type = "ValueError" THEN "warning" ELSE "critical")
    /\ pc' = "done"
    /\ UNCHANGED <<project_home, script, form, project, fs, toolCalls, vals, err, data, returned,
                   created, elev>>

----------------------------------------------------------------------------
(* The two scripts *)

Next ==
    \/ get_user_inputs
    \/ check_cancelled
    \/ makedirs
    \/ rastercalc
    \/ polygonize
    \/ add_temp_layer
    \/ selectbylocation
    \/ saveselectedfeatures
    \/ remove_temp_layer
    \/ load_and_style
    \/ cleanup
    \/ report
    \/ ap_get_user_inputs
    \/ ap_check_cancelled
    \/ create_point_layer
    \/ ap_success
    \/ ap_report

Spec == Init /\ [][Next]_vars

----------------------------------------------------------------------------
(* Base-elevation extraction on its own: every first feature, one call. *)

\* Z of vertex 0: a number or NaN.
ZValues == {NaN} \cup {Num(n) : n \in 0..MaxElev}

\* Geometries: a 2D type and an empty geometry have no Z.
Geometry(w, e, z) == (w \notin HasZTypes \/ e) => z = NaN

\* The layer handed to the call: none, an empty dataset, or one feature.
ElevLayer(k, f) == IF k = 0 THEN NoLayer ELSE IF k = 1 THEN Layer(<<>>) ELSE Layer(<<f>>)

InitElev ==
    /\ script = "extract"
    /\ project_home = <<"/home">>
    /\ pc = "call"
    /\ project = {"points"}
    /\ \E k \in 0..2, w \in WkbTypes, e \in BOOLEAN, z \in ZValues,
          a \in [FieldNames -> AttrValues] :
        /\ Geometry(w, e, z)
        /\ k < 2 => (w = "Point" /\ ~e /\ a = NoAttrs)
        /\ form = [accepted |-> TRUE,
                   point_layer |-> ElevLayer(k, Feature(w, e, z, Outside, a))]
    /\ dem = FlatRaster
    /\ fs = {}
    /\ dialogs = <<>>
    /\ toolCalls = <<>>
    /\ vals = NoVals
    /\ err = NoErr
    /\ mask = FlatRaster
    /\ polys = {}
    /\ selected = {}
    /\ output = {}
    /\ returned = <<>>
    /\ created = NoCreated
    /\ elev = Ok(0)

\* base_elevation = self.get_base_elevation_from_point(point_layer)
extract ==
    /\ script = "extract" /\ pc = "call"
    /\ elev' = get_base_elevation_from_point(form.point_layer)
    /\ pc' = "called"
    /\ UNCHANGED <<project_home, script, form, project, fs, dialogs, toolCalls, vals, err, data,
                   returned, created>>

NextElev == extract

SpecElev == InitElev /\ [][NextElev]_vars

----------------------------------------------------------------------------
(* The threshold raster on its own: one DEM and base elevation, the raster
   calculator run at a flood level and then at higher ones. *)

\* DEM values reach above the highest threshold base_elevation + level.
ThresholdDems == [Cells -> 0..(MaxElev + MaxLevel + 1)]

InitThreshold ==
    /\ script = "threshold"
    /\ project_home \in Homes
    /\ pc = "start"
    /\ project = {"dem", "points"}
    /\ form = NoForm
    /\ dem \in ThresholdDems
    /\ \E b \in 0..MaxElev :
        vals = [is_none |-> FALSE, point_layer |-> NoLayer, base_elevation |-> b,
                level |-> 0, extent |-> <<"canvas">>]
    /\ fs = {}
    /\ dialogs = <<>>
    /\ toolCalls = <<>>
    /\ err = NoErr
    /\ mask = FlatRaster
    /\ polys = {}
    /\ selected = {}
    /\ output = {}
    /\ returned = <<>>
    /\ created = NoCreated
    /\ elev = Ok(0)

\* create_water_level_polygon up to the end of step 1, at a first level and
\* then at a higher one, on the same DEM and base elevation: os.makedirs of
\* the level folder, then processing.run("native:rastercalc", ...), which
\* writes the threshold raster into it.
threshold ==
    /\ script = "threshold" /\ pc \in {"start", "thresholded"}
    /\ \E l \in 0..MaxLevel :
        /\ pc = "thresholded" => l > vals.level
        /\ vals' = [vals EXCEPT !.level = l]
        /\ \E dirs \in BOOLEAN :
           \E made \in MadeDirs(dirs, IF pc = "start" THEN 1 ELSE 3), ok \in BOOLEAN :
            IF ~dirs
            THEN /\ fs' = fs \cup made
                 /\ toolCalls' = toolCalls /\ mask' = mask
                 /\ Throw("OSError", "processing")
            ELSE /\ toolCalls' = Append(toolCalls, "native:rastercalc")
                 /\ IF ok
                    THEN /\ fs' = fs \cup made \cup {raster_output}
                         /\ mask' = RasterCalc(dem, vals.base_elevation, l)
                         /\ pc' = "thresholded" /\ err' = err
                    ELSE /\ fs' = fs \cup made
                         /\ mask' = mask
                         /\ Throw("QgsProcessingException", "processing")
    /\ UNCHANGED <<project_home, script, form, dem, project, dialogs, polys, selected,
                   output, returned, created, elev>>

NextThreshold == threshold

SpecThreshold == InitThreshold /\ [][NextThreshold]_vars

----------------------------------------------------------------------------
(* Properties *)

\* The water-level script has failed in its processing function and the
\* failure is being, or has been, reported.
ProcessingFailed ==
    script = "level" /\ pc \in {"except", "done"} /\ err.origin = "processing"

\* C1: when a pipeline stage of the water-level generator fails, no layer the
\* invocation added (the temporary polygon layer included) is registered with
\* the project at the moment the failure is reported.
C1_NoLayerOnFailure == ProcessingFailed => project \cap AddedLayers = {}

\* The filtered polygon file of the water-level generator has been written.
OutputWritten == script = "level" /\ filtered_polygon_output \in fs

\* C2: every polygon of the final output intersects the first feature of the
\* point dataset, the feature the base elevation was taken from.
C2_OutputIntersectsFirstFeature ==
    OutputWritten =>
        \A p \in output : Intersects(p, vals.point_layer.features[1])

\* C3: every polygon of the final output is a region of cells flagged
\* inundated: mask value 1, each cell below base_elevation + flood level.
C3_OutputIsInundated ==
    OutputWritten =>
        \A p \in output :
            /\ p.DN = 1
            /\ \A c \in p.cells : dem[c] < vals.base_elevation + vals.level

\* One call of base-elevation extraction has returned or raised.
Called == script = "extract" /\ pc = "called"

\* The dataset handed to the call has a first feature.
HasFirst == form.point_layer.chosen /\ Len(form.point_layer.features) > 0
First == form.point_layer.features[1]

\* The first feature has a non-empty geometry carrying a valid Z.
ValidZ == HasFirst /\ ~First.empty /\ First.wkb \in HasZTypes /\ ~First.z.nan

\* C4: a first feature with a non-empty geometry carrying a valid Z yields
\* exactly that Z, whatever the elevation-like attributes hold.
C4_GeometryZFirst == (Called /\ ValidZ) => elev = Ok(First.z.v)

\* The first feature has a non-empty 2D-only geometry.
TwoD == HasFirst /\ ~First.empty /\ First.wkb \notin HasZTypes

\* An attribute value that is a non-null number (a numeric text included).
Usable(a) == a.kind = "num" \/ (a.kind = "str" /\ PyFloat(a).ok)

\* The positions of field_names holding a usable value.
UsablePositions(f) == {i \in 1..Len(field_names) : Usable(f.attrs[field_names[i]])}

Min(S) == CHOOSE i \in S : \A j \in S : i <= j

\* C5: for a 2D first feature the fields are probed in the order z, Z,
\* elevation, elev, height and the first non-null numeric value is returned;
\* a field that is absent, null or not numeric is passed over.
C5_FirstUsableAttribute ==
    (Called /\ TwoD /\ UsablePositions(First) # {}) =>
        elev = PyFloat(First.attrs[field_names[Min(UsablePositions(First))]])

\* Every one of the five fields is absent or null.
NoneOrAbsent(f) == \A n \in FieldNames : f.attrs[n] \in {Absent, None, Null}

\* C6: a dataset with zero features fails with the empty-input error; a 2D
\* first feature whose five fields are all absent or null fails with the
\* missing-elevation error; no value is returned, no other error is raised.
C6_ExtractionErrors ==
    /\ (Called /\ form.point_layer.chosen /\ Len(form.point_layer.features) = 0)
          => elev = Raise("ValueError", "Point layer is empty or invalid")
    /\ (Called /\ TwoD /\ NoneOrAbsent(First))
          => elev = Raise("ValueError",
                          "Point layer has no Z coordinate in geometry or attributes")

\* The elevation of a dataset's first feature cannot be determined: empty
\* geometry, NaN Z, or no usable attribute.
Undetermined(l) ==
    LET f == l.features[1]
    IN \/ f.empty
       \/ f.wkb \in HasZTypes /\ f.z.nan
       \/ f.wkb \notin HasZTypes /\ UsablePositions(f) = {}

\* The accepted water-level form lacks an input or a usable elevation.
UnusableInputs ==
    /\ script = "level" /\ form # NoForm /\ form.accepted
    /\ \/ ~form.dem_layer
       \/ ~form.point_layer.chosen
       \/ Len(form.point_layer.features) = 0
       \/ Undetermined(form.point_layer)
       \/ ~form.canvas /\ Strip(form.extent_input) = <<>>

\* C7: with an empty dataset, an undeterminable elevation or a missing layer
\* or extent, no geoprocessing operation is invoked, no directory or file is
\* created and no layer is registered.
C7_NoPolygonOnBadInput ==
    UnusableInputs =>
        /\ toolCalls = <<>>
        /\ fs = {}
        /\ project \cap AddedLayers = {}
        /\ returned = <<>>

\* C7 witness: an empty custom extent despite a usable elevation, reported.
C7_Witness ==
    /\ UnusableInputs /\ pc = "done"
    /\ form.dem_layer /\ Len(form.point_layer.features) > 0
    /\ ~Undetermined(form.point_layer)
    /\ dialogs = <<"warning">>

\* C8: every failure is reported by exactly one dialog chosen by its origin:
\* a warning for a failure of input gathering or elevation extraction, a
\* critical error for a failure of processing.
C8_DialogByOrigin ==
    (pc = "done" /\ err # NoErr) =>
        dialogs = <<IF err.origin = "validation" THEN "warning" ELSE "critical">>

\* The form was cancelled.
Cancelled == form # NoForm /\ ~form.accepted

\* C9: cancelling either form ends the invocation with no layer registered,
\* nothing written and no warning or critical-error dialog.
C9_CancelIsSilent ==
    Cancelled =>
        /\ project \cap AddedLayers = {}
        /\ fs = {}
        /\ dialogs = <<>>
        /\ toolCalls = <<>>
        /\ pc \in {"inputs", "exit", "done"}

\* C9 witness: the water-level script has exited after a cancelled form.
C9_Witness == Cancelled /\ script = "level" /\ pc = "exit"

\* C10: once every stage up to the final layer has succeeded, the outcome
\* does not depend on the deletions: no error is reported, the final layer
\* stays registered and its path is returned.
C10_CleanupBestEffort ==
    (script = "level" /\ pc = "done" /\ "water_level" \in project) =>
        /\ dialogs = <<>>
        /\ returned = filtered_polygon_output


\* The threshold raster has been computed for vals.level.
Thresholded == script = "threshold" /\ pc = "thresholded"

\* A cell whose value equals base_elevation + level is not flagged.
Strict ==
    Thresholded =>
        \A c \in Cells : dem[c] = vals.base_elevation + vals.level => mask[c] = 0

\* From one level to a higher one every flagged cell stays flagged.
Monotonic ==
    (Thresholded /\ Thresholded' /\ vals'.level > vals.level) =>
        \A c \in Cells : mask[c] = 1 => mask'[c] = 1

\* C11: the threshold predicate cell < base_elevation + flood_level is strict
\* and monotonic in the flood level: a cell equal to the sum is not flagged,
\* and a cell flagged at level L is flagged at every level above L.
C11_ThresholdStrictMonotonic == [](Strict) /\ [][Monotonic]_vars

\* C11 witness: at a raised level a cell flagged at level 0 is still flagged
\* while a cell equal to the sum is not.
C11_Witness ==
    /\ Thresholded /\ vals.level > 0 /\ Len(toolCalls) > 1
    /\ \E c \in Cells : dem[c] < vals.base_elevation /\ mask[c] = 1
    /\ \E c \in Cells : dem[c] = vals.base_elevation + vals.level /\ mask[c] = 0

\* The point-layer form was accepted and the script has run to its end.
PointFormDone == script = "add_point" /\ pc = "done" /\ form.accepted

\* The single feature the claim expects: (1, x, y, z, name).
ExpectedFeature ==
    [id |-> 1, x |-> form.x, y |-> form.y, z |-> form.z,
     name |-> Strip(form.name_input)]

\* C12: an accepted point-layer form with a non-empty name and no output
\* file registers exactly one new in-memory layer holding exactly one
\* feature with attributes (1, x, y, z, name), nothing being written; when
\* the host builds no valid layer the failure is critical and nothing is
\* registered.  A whitespace-only name is rejected as a validation error and
\* registers no layer.
C12_PointLayerCreated ==
    PointFormDone =>
        IF Strip(form.name_input) = <<>>
        THEN /\ err = Exc("ValueError", "validation")
             /\ dialogs = <<"warning">>
             /\ project \cap AddedLayers = {}
             /\ created = NoCreated
             /\ fs = {}
        ELSE ~form.output_file_path =>
                /\ fs = {}
                /\ IF err = NoErr
                   THEN /\ project \cap AddedLayers = {"point_layer"}
                        /\ created.provider = "memory"
                        /\ created.name = Strip(form.name_input)
                        /\ created.features = <<ExpectedFeature>>
                        /\ dialogs = <<"information">>
                   ELSE /\ err = Exc("Exception", "processing")
                        /\ project \cap AddedLayers = {}
                        /\ created = NoCreated
                        /\ dialogs = <<"critical">>

\* C12 witness: a name typed with a leading blank, x and y different, no
\* output file: the memory layer is registered with the stripped name.
C12_Witness ==
    /\ PointFormDone /\ err = NoErr
    /\ form.name_input = <<" ", "a">> /\ ~form.output_file_path
    /\ form.x # form.y
    /\ "point_layer" \in project
    /\ created.features = <<ExpectedFeature>>

====
